---- MODULE Spec2Model ----
(***************************************************************************)
(* DreamChecker's procedure analyzer (src/dreamchecker/main.rs): the value *)
(* shape lattice Type, the abstract value Analysis, and ProcAnalyzer, the  *)
(* walker of one procedure body.                                           *)
(*                                                                         *)
(* Option<T> is a sequence of length at most one: None is <<>>, Some(x) is *)
(* <<x>>.  A class of the object tree (a TypeRef) is its absolute path, a  *)
(* sequence of names; the root is <<>>.                                    *)
(***************************************************************************)
EXTENDS Integers, Sequences, FiniteSets

VARIABLES
    ty,          \* ProcAnalyzer.ty: the class owning the procedure
    local_vars,  \* ProcAnalyzer.local_vars: name -> Analysis
    stderr,      \* the lines eprintln! has written, in order
    calls,       \* history: one record per returned visit_* call, in return order
    code,        \* the body handed to run (Option)
    rest,        \* run's visit_block loop: the statements still to visit
    pc           \* "new" (constructed), "walk" (inside run), "done" (run returned)

vars == <<ty, local_vars, stderr, calls, code, rest, pc>>

None == <<>>
Some(x) == <<x>>

----------------------------------------------------------------------------
(* The object tree, a collaborator outside main.rs.                        *)

Root == <<>>

Classes ==
    { Root, <<"mob">>, <<"obj">>, <<"obj", "foo">>,
      <<"icon">>, <<"matrix">>, <<"sound">> }

\* A declared field: class, name, declared type path.
VarDecls ==
    { [on |-> <<"obj">>, name |-> "n", type_path |-> <<"obj", "foo">>],
      [on |-> <<"obj">>, name |-> "f", type_path |-> <<"nope">>] }

is_root(t) == t = Root

find(path) == IF path \in Classes THEN Some(path) ELSE None

type_by_path(path) == IF path \in Classes THEN Some(path) ELSE None

Ancestors(t) == { SubSeq(t, 1, k) : k \in 0..Len(t) }

get_var_declaration(t, name) ==
    LET ds == { d \in VarDecls : d.name = name /\ d.on \in Ancestors(t) }
    IN  IF ds = {} THEN None ELSE Some(CHOOSE d \in ds : TRUE)

\* One step of a path: "/" descends to a child, "." looks for the child on
\* the class itself, then on each ancestor up to the root.
child(t, name) == IF Append(t, name) \in Classes THEN Some(Append(t, name)) ELSE None

RECURSIVE navigate_dot(_, _)
navigate_dot(t, name) ==
    IF child(t, name) # None THEN child(t, name)
    ELSE IF is_root(t) THEN None
    ELSE navigate_dot(SubSeq(t, 1, Len(t) - 1), name)

RECURSIVE navigate_from(_, _)
navigate_from(cur, pieces) ==
    IF cur = None \/ pieces = <<>> THEN cur
    ELSE LET p == Head(pieces)
             nxt == IF p.op = "/" THEN child(cur[1], p.name)
                    ELSE navigate_dot(cur[1], p.name)
         IN  navigate_from(nxt, Tail(pieces))

navigate_path(t, pieces) ==
    IF pieces = <<>> THEN Some(t)
    ELSE IF Head(pieces).op = "/"
         THEN navigate_from(child(Root, Head(pieces).name), Tail(pieces))
         ELSE navigate_from(navigate_dot(t, Head(pieces).name), Tail(pieces))

----------------------------------------------------------------------------
(* Type and Analysis.                                                      *)

Ty(k) == [k |-> k, c |-> None]
TyOf(k, c) == [k |-> k, c |-> c]

Any == Ty("Any")
Number == Ty("Number")
Instance(t) == TyOf("Instance", Some(t))
Typepath(t) == TyOf("Typepath", Some(t))
List(elem) == TyOf("List", elem)

\* A Constant: its variant, and the payload (text, number or builder name).
Const(k, s, n) == [k |-> k, s |-> s, n |-> n]

unwrap(o) == o[1]

from_constant(constant) ==
    CASE constant.k = "Null" -> Ty("Null")
      [] constant.k = "String" -> Ty("String")
      [] constant.k = "Resource" -> Ty("Resource")
      [] constant.k = "Int" -> Number
      [] constant.k = "Float" -> Number
      [] constant.k = "List" -> List(None)
      [] constant.k = "Call" ->
            CASE constant.s = "Icon" -> Instance(unwrap(find(<<"icon">>)))
              [] constant.s = "Matrix" -> Instance(unwrap(find(<<"matrix">>)))
              [] constant.s = "Newlist" -> List(None)
              [] constant.s = "Sound" -> Instance(unwrap(find(<<"sound">>)))
      [] OTHER -> Any

into(t) == [ty |-> t, value |-> None]

empty == into(Any)

null == [ty |-> Ty("Null"), value |-> Some(Const("Null", "", 0))]

from_value(value) == [ty |-> from_constant(value), value |-> Some(value)]

----------------------------------------------------------------------------
(* ProcAnalyzer.  An operator takes the analyzer `self` (ty, local_vars,   *)
(* and the output written and calls returned so far) and gives the         *)
(* analyzer afterwards, with the returned Analysis for the operators that  *)
(* return one.                                                             *)

eprintln(self, msg, arg) ==
    [self EXCEPT !.stderr = Append(@, [msg |-> msg, arg |-> arg])]

\* A call returns r = [self, ret]: the analyzer afterwards and the value.
Ret(self, ret) == [self |-> self, ret |-> ret]

\* The history of returned calls: the call, what it returned, the lines it
\* wrote, and whether it left local_vars as they were.  span is <<from, r>>:
\* the analyzer when the call began, and the call's result.
Returned(span, call) ==
    Ret([span[2].self EXCEPT !.calls =
            Append(@, [call |-> call, ret |-> span[2].ret,
                       out |-> Len(span[2].self.stderr) - Len(span[1].stderr),
                       frame |-> span[2].self.local_vars = span[1].local_vars])],
        span[2].ret)

Result(from, r, call) == Returned(<<from, r>>, call)

insert(map, key, val) ==
    [k \in DOMAIN map \cup {key} |-> IF k = key THEN val ELSE map[k]]

new_src(t, l) == IF ~is_root(t) THEN insert(l, "src", into(Instance(t))) ELSE l

new(t) ==
    insert(
        new_src(t,
            insert(insert(insert(<<>>, ".", empty), "args", into(List(None))),
                   "usr", into(Instance(unwrap(find(<<"mob">>)))))),
        "global", into(Ty("Global")))

\* visit_unary with the unconstrained operand matched before the operator.
visit_unary_any_first(self, rhs, op) ==
    Result(self,
        CASE rhs.ty = Any -> Ret(self, empty)
          [] rhs.ty # Any /\ (op = "Not" \/ rhs.ty = Number) -> Ret(self, into(Number))
          [] OTHER -> Ret(eprintln(self, "visit_unary: don't know how to", op), empty),
        [f |-> "visit_unary", op |-> op, rhs |-> rhs])

\* visit_unary with the operand's constant carried over to the result.
visit_unary_keep_value(self, rhs, op) ==
    Result(self,
        CASE op = "Not" \/ rhs.ty = Number ->
                Ret(self, [ty |-> Number, value |-> rhs.value])
          [] op # "Not" /\ rhs.ty = Any -> Ret(self, empty)
          [] OTHER -> Ret(eprintln(self, "visit_unary: don't know how to", op), empty),
        [f |-> "visit_unary", op |-> op, rhs |-> rhs])

visit_unary(self, rhs, op) ==
    Result(self,
        CASE op = "Not" -> Ret(self, into(Number))
          [] op \in {"Neg", "BitNot", "PreIncr", "PostIncr", "PreDecr", "PostDecr"}
                /\ rhs.ty = Number -> Ret(self, into(Number))
          [] op # "Not" /\ rhs.ty # Number /\ rhs.ty = Any -> Ret(self, empty)
          [] OTHER -> Ret(eprintln(self, "visit_unary: don't know how to", op), empty),
        [f |-> "visit_unary", op |-> op, rhs |-> rhs])

visit_follow(self, lhs, rhs) ==
    Result(self,
        CASE rhs.fo = "Field" /\ rhs.kind = "Colon" -> Ret(self, empty)
          [] rhs.fo = "Field" /\ rhs.kind = "SafeColon" -> Ret(self, empty)
          [] rhs.fo = "Call" /\ rhs.kind = "Colon" -> Ret(self, empty)
          [] rhs.fo = "Call" /\ rhs.kind = "SafeColon" -> Ret(self, empty)
          [] rhs.fo = "Index" -> Ret(eprintln(self, "visit_follow: Index", ""), empty)
          [] rhs.fo = "Field" /\ rhs.kind \notin {"Colon", "SafeColon"} ->
                Ret(self, empty)
          [] rhs.fo = "Call" /\ rhs.kind \notin {"Colon", "SafeColon"} ->
                Ret(self, empty),
        [f |-> "visit_follow", follow |-> rhs, lhs |-> lhs])

\* visit_binary with nothing written.
visit_binary_silent(self, lhs, rhs, op) ==
    Result(self, Ret(self, empty), [f |-> "visit_binary", op |-> op])

visit_binary(self, lhs, rhs, op) ==
    Result(self,
        Ret(eprintln(self, "visit_binary: don't know anything about", op), empty),
        [f |-> "visit_binary", op |-> op])

visit_call(self, src, proc, args) ==
    Result(self, Ret(eprintln(self, "visit_call", proc), empty),
           [f |-> "visit_call", proc |-> proc])

\* base_type_hint with the hint handed on under wrappers too.
base_type_hint_always(unary, follow, type_hint) == type_hint

base_type_hint(unary, follow, type_hint) ==
    IF follow = <<>> /\ unary = <<>> THEN type_hint ELSE None

\* Term::Ident, no local of that name: the field declaration `decl`.
visit_term_Ident_decl(self, unscoped_name, decl) ==
    IF decl # None
    THEN IF type_by_path(decl[1].type_path) # None
         THEN Ret(self, into(Instance(type_by_path(decl[1].type_path)[1])))
         ELSE Ret(eprintln(self, "visit_term: ident with type failed to resolve",
                           unscoped_name),
                  empty)
    ELSE Ret(eprintln(self, "visit_term: ident failed to resolve", unscoped_name),
             empty)

\* visit_term_Ident with the declared field consulted before the locals.
visit_term_Ident_field_first(self, unscoped_name) ==
    IF get_var_declaration(self.ty, unscoped_name) # None
    THEN visit_term_Ident_decl(self, unscoped_name,
                               get_var_declaration(self.ty, unscoped_name))
    ELSE IF unscoped_name \in DOMAIN self.local_vars
         THEN Ret(self, self.local_vars[unscoped_name])
         ELSE visit_term_Ident_decl(self, unscoped_name, None)

\* Term::Ident: a local, else a declared field, else nothing.
visit_term_Ident(self, unscoped_name) ==
    IF unscoped_name \in DOMAIN self.local_vars
    THEN Ret(self, self.local_vars[unscoped_name])
    ELSE visit_term_Ident_decl(self, unscoped_name,
                               get_var_declaration(self.ty, unscoped_name))

\* if let Some(ty) = self.ty.navigate_path(&prefab.path)
visit_term_path(self, t, kind) ==
    IF t # None
    THEN Ret(self, into(TyOf(kind, t)))
    ELSE Ret(eprintln(self, "visit_term: path failed to resolve", ""), empty)

\* Term::New
visit_term_New(self, type_, type_hint) ==
    CASE type_.nt = "Implicit" ->
            IF type_hint # None
            THEN Ret(self, into(Instance(type_hint[1])))
            ELSE Ret(eprintln(self, "NewType::Implicit with no type hint", ""), empty)
      [] type_.nt = "Ident" -> Ret(self, into(Any))
      [] type_.nt = "Prefab" ->
            visit_term_path(self, navigate_path(self.ty, type_.path), "Instance")

RECURSIVE visit_expression(_, _, _)
RECURSIVE visit_term(_, _, _)
RECURSIVE visit_follows(_, _)
RECURSIVE visit_unaries(_, _)
RECURSIVE visit_args(_, _)

\* Term::Call: args.iter().map(|e| self.visit_expression(e, None)).collect()
visit_args_collect(a, r) == Ret(r.self, <<a.ret>> \o r.ret)
visit_args_next(a, args) == visit_args_collect(a, visit_args(a.self, args))
visit_args(self, args) ==
    IF args = <<>> THEN Ret(self, <<>>)
    ELSE visit_args_next(visit_expression(self, Head(args), None), Tail(args))

visit_term_Call(self, args, unscoped_name) ==
    visit_call(args.self, self.ty, unscoped_name, args.ret)

visit_term(self, term, type_hint) ==
    Result(self,
        CASE term.t = "Null" -> Ret(self, null)
          [] term.t = "New" -> visit_term_New(self, term.type_, type_hint)
          [] term.t = "List" -> Ret(self, into(List(None)))
          [] term.t = "Prefab" ->
                visit_term_path(self, navigate_path(self.ty, term.path), "Typepath")
          [] term.t = "String" -> Ret(self, from_value(Const("String", term.text, 0)))
          [] term.t = "Resource" ->
                Ret(self, from_value(Const("Resource", term.text, 0)))
          [] term.t = "Int" -> Ret(self, from_value(Const("Int", "", term.number)))
          [] term.t = "Float" -> Ret(self, from_value(Const("Float", "", term.number)))
          [] term.t = "Expr" -> visit_expression(self, term.expr, type_hint)
          [] term.t = "InterpString" -> Ret(self, into(Ty("String")))
          [] term.t = "Call" ->
                visit_term_Call(self, visit_args(self, term.args), term.name)
          [] term.t = "Ident" -> visit_term_Ident(self, term.name)
          [] OTHER -> Ret(eprintln(self, "visit_term: don't know about", term.t), empty),
        [f |-> "visit_term", term |-> term, type_hint |-> type_hint])

\* for each in follow.iter() { ty = self.visit_follow(ty, each); }
visit_follows(r, follow) ==
    IF follow = <<>> THEN r
    ELSE visit_follows(visit_follow(r.self, r.ret, Head(follow)), Tail(follow))

\* for each in unary.iter().rev() { ty = self.visit_unary(ty, each); }
visit_unaries(r, unary) ==
    IF unary = <<>> THEN r
    ELSE visit_unaries(visit_unary(r.self, r.ret, unary[Len(unary)]),
                       SubSeq(unary, 1, Len(unary) - 1))

\* Expression::BinaryOp, with lty and then rty evaluated
visit_expression_binary(lty, rty, op) == visit_binary(rty.self, lty.ret, rty.ret, op)
visit_expression_rhs(lty, rhs, op) ==
    visit_expression_binary(lty, visit_expression(lty.self, rhs, None), op)

\* Expression::AssignOp storing the right-hand side in a target that is a
\* bare identifier.
visit_expression_assign_write(rhs, expression) ==
    IF expression.lhs.e = "Base" /\ expression.lhs.term.t = "Ident"
    THEN Ret([rhs.self EXCEPT
                 !.local_vars = insert(@, expression.lhs.term.name, rhs.ret)],
             rhs.ret)
    ELSE rhs
visit_expression_assign_store(lhs, expression) ==
    visit_expression_assign_write(visit_expression(lhs.self, expression.rhs, None),
                                  expression)

\* Expression::AssignOp, with lhs evaluated
visit_expression_assign(lhs, expression) ==
    visit_expression(lhs.self, expression.rhs, None)

\* Expression::TernaryOp, with cond, then if_, then else_ evaluated
visit_expression_ty(if_, else_) == Ret(else_.self, if_.ret)
visit_expression_else(if_, else_, type_hint) ==
    visit_expression_ty(if_, visit_expression(if_.self, else_, type_hint))
visit_expression_if(cond, if_, else_, type_hint) ==
    visit_expression_else(visit_expression(cond.self, if_, type_hint), else_, type_hint)

visit_expression(self, expression, type_hint) ==
    Result(self,
        CASE expression.e = "Base" ->
                visit_unaries(
                    visit_follows(
                        visit_term(self, expression.term,
                                   base_type_hint(expression.unary, expression.follow,
                                                  type_hint)),
                        expression.follow),
                    expression.unary)
          [] expression.e = "BinaryOp" ->
                visit_expression_rhs(visit_expression(self, expression.lhs, None),
                                     expression.rhs, expression.op)
          [] expression.e = "AssignOp" ->
                visit_expression_assign(visit_expression(self, expression.lhs, None),
                                        expression)
          [] expression.e = "TernaryOp" ->
                visit_expression_if(visit_expression(self, expression.cond, None),
                                    expression.if_, expression.else_, type_hint),
        [f |-> "visit_expression", expr |-> expression, type_hint |-> type_hint])

\* visit_var: the hint, then the value, then the insert
visit_var_type_hint(self, var) ==
    IF var.type_path = <<>> THEN Ret(self, None)
    ELSE IF type_by_path(var.type_path) = None
         THEN Ret(eprintln(self, "visit_var: not found", var.type_path), None)
         ELSE Ret(self, type_by_path(var.type_path))

visit_var_val(type_hint, var) ==
    IF var.value # None
    THEN visit_expression(type_hint.self, var.value[1], type_hint.ret)
    ELSE Ret(type_hint.self, null)

visit_var_save(val, var) ==
    Ret([val.self EXCEPT !.local_vars = insert(@, var.name, val.ret)], val.ret)

visit_var(self, var) ==
    Result(self,
           visit_var_save(visit_var_val(visit_var_type_hint(self, var), var), var),
           [f |-> "visit_var", var |-> var]).self

RECURSIVE visit_statement(_, _)
RECURSIVE visit_block(_, _)
RECURSIVE visit_vars(_, _)
RECURSIVE visit_arms(_, _)
RECURSIVE visit_case(_, _)
RECURSIVE visit_cases(_, _)

\* if let Some(e) = e { self.visit_expression(e, None); }
visit_some_expression(self, e) ==
    IF e = None THEN self ELSE visit_expression(self, e[1], None).self

visit_some_statement(self, st) ==
    IF st = None THEN self ELSE visit_statement(self, st[1])

visit_some_block(self, b) ==
    IF b = None THEN self ELSE visit_block(self, b[1])

visit_block(self, block) ==
    IF block = <<>> THEN self
    ELSE visit_block(visit_statement(self, Head(block)), Tail(block))

visit_vars(self, vs) ==
    IF vs = <<>> THEN self
    ELSE visit_vars(visit_var(self, Head(vs)), Tail(vs))

\* for &(ref condition, ref block) in arms.iter()
visit_arms(self, arms) ==
    IF arms = <<>> THEN self
    ELSE visit_arms(
            visit_block(visit_expression(self, Head(arms).condition, None).self,
                        Head(arms).block),
            Tail(arms))

visit_case_part(self, p) ==
    IF p.cp = "Exact" THEN visit_expression(self, p.expr, None).self
    ELSE visit_expression(visit_expression(self, p.start, None).self,
                          p.end, None).self

\* for case_part in case.iter()
visit_case(self, case) ==
    IF case = <<>> THEN self
    ELSE visit_case(visit_case_part(self, Head(case)), Tail(case))

\* for &(ref case, ref block) in cases.iter()
visit_cases(self, cases) ==
    IF cases = <<>> THEN self
    ELSE visit_cases(visit_block(visit_case(self, Head(cases).case),
                                 Head(cases).block),
                     Tail(cases))

\* visit_statement_While with the block walked before the condition.
visit_statement_While_body_first(self, statement) ==
    visit_expression(visit_block(self, statement.block),
                     statement.condition, None).self

\* visit_statement_While with the block walked a second time.
visit_statement_While_twice(self, statement) ==
    visit_block(visit_block(visit_expression(self, statement.condition, None).self,
                            statement.block),
                statement.block)

visit_statement_While(self, statement) ==
    visit_block(visit_expression(self, statement.condition, None).self,
                statement.block)

visit_statement_DoWhile(self, statement) ==
    visit_expression(visit_block(self, statement.block),
                     statement.condition, None).self

\* visit_statement_If with the arms' declarations dropped at the end.
visit_statement_If_scoped(self, statement) ==
    [visit_some_block(visit_arms(self, statement.arms), statement.else_arm)
        EXCEPT !.local_vars = self.local_vars]

visit_statement_If(self, statement) ==
    visit_some_block(visit_arms(self, statement.arms), statement.else_arm)

visit_statement_ForLoop(self, statement) ==
    visit_block(
        visit_some_statement(
            visit_some_expression(visit_some_statement(self, statement.init),
                                  statement.test),
            statement.inc),
        statement.block)

visit_statement_ForList(self, statement) ==
    visit_block(visit_some_expression(self, statement.in_list), statement.block)

visit_statement_ForRange(self, statement) ==
    visit_block(
        visit_some_expression(
            visit_expression(visit_expression(self, statement.start, None).self,
                             statement.end, None).self,
            statement.step),
        statement.block)

visit_statement_Switch(self, statement) ==
    visit_some_block(
        visit_cases(visit_expression(self, statement.input, None).self,
                    statement.cases),
        statement.default)

visit_statement_TryCatch(self, statement) ==
    visit_block(visit_block(self, statement.try_block), statement.catch_block)

visit_statement(self, statement) ==
    Result(self,
        Ret(CASE statement.s = "Expr" ->
                    visit_expression(self, statement.expr, None).self
              [] statement.s = "Return" -> visit_some_expression(self, statement.value)
              [] statement.s = "Throw" ->
                    visit_expression(self, statement.expr, None).self
              [] statement.s = "While" -> visit_statement_While(self, statement)
              [] statement.s = "DoWhile" -> visit_statement_DoWhile(self, statement)
              [] statement.s = "If" -> visit_statement_If(self, statement)
              [] statement.s = "ForLoop" -> visit_statement_ForLoop(self, statement)
              [] statement.s = "ForList" -> visit_statement_ForList(self, statement)
              [] statement.s = "ForRange" -> visit_statement_ForRange(self, statement)
              [] statement.s = "Var" -> visit_var(self, statement.var)
              [] statement.s = "Vars" -> visit_vars(self, statement.vars)
              [] statement.s = "Setting" -> self
              [] statement.s = "Spawn" ->
                    visit_block(visit_some_expression(self, statement.delay),
                                statement.block)
              [] statement.s = "Switch" -> visit_statement_Switch(self, statement)
              [] statement.s = "TryCatch" -> visit_statement_TryCatch(self, statement)
              [] statement.s = "Continue" -> self
              [] statement.s = "Break" -> self
              [] statement.s = "Label" -> visit_block(self, statement.block)
              [] statement.s = "Del" ->
                    visit_expression(self, statement.expr, None).self,
            None),
        [f |-> "visit_statement", statement |-> statement]).self

\* run: seed every parameter, then walk the body.  The walk of the body's
\* own statements is the machine below, one statement a step.
RECURSIVE seed_parameters(_, _)
seed_parameters(lv, parameters) ==
    IF parameters = <<>> THEN lv
    ELSE seed_parameters(insert(lv, Head(parameters), empty), Tail(parameters))

----------------------------------------------------------------------------
(* Syntax trees (dm::ast), as the walker matches on them.                  *)

Base(unary, term, follow) ==
    [e |-> "Base", unary |-> unary, term |-> term, follow |-> follow]
Of(term) == Base(<<>>, term, <<>>)
BinaryOp(op, lhs, rhs) == [e |-> "BinaryOp", op |-> op, lhs |-> lhs, rhs |-> rhs]
AssignOp(op, lhs, rhs) == [e |-> "AssignOp", op |-> op, lhs |-> lhs, rhs |-> rhs]
TernaryOp(cond, if_, else_) ==
    [e |-> "TernaryOp", cond |-> cond, if_ |-> if_, else_ |-> else_]

Ident(name) == [t |-> "Ident", name |-> name]
IntLit(number) == [t |-> "Int", number |-> number]
FloatLit(number) == [t |-> "Float", number |-> number]
StringLit(text) == [t |-> "String", text |-> text]
ResourceLit(text) == [t |-> "Resource", text |-> text]
New(type_, args) == [t |-> "New", type_ |-> type_, args |-> args]
Prefab(path) == [t |-> "Prefab", path |-> path]
ListOf(args) == [t |-> "List", args |-> args]
Call(name, args) == [t |-> "Call", name |-> name, args |-> args]
Paren(expr) == [t |-> "Expr", expr |-> expr]
Implicit == [nt |-> "Implicit"]
NewIdent(name) == [nt |-> "Ident", name |-> name]
NewPrefab(path) == [nt |-> "Prefab", path |-> path]

Slash(name) == [op |-> "/", name |-> name]
Dot(name) == [op |-> ".", name |-> name]

Index(expr) == [fo |-> "Index", expr |-> expr]
Field(kind, name) == [fo |-> "Field", kind |-> kind, name |-> name]
FollowCall(kind, name, args) ==
    [fo |-> "Call", kind |-> kind, name |-> name, args |-> args]

VarStatement(name, type_path, value) ==
    [name |-> name, type_path |-> type_path, value |-> value]

Expr(expr) == [s |-> "Expr", expr |-> expr]
Return(value) == [s |-> "Return", value |-> value]
Throw(expr) == [s |-> "Throw", expr |-> expr]
Del(expr) == [s |-> "Del", expr |-> expr]
While(condition, block) == [s |-> "While", condition |-> condition, block |-> block]
DoWhile(block, condition) == [s |-> "DoWhile", block |-> block, condition |-> condition]
If(arms, else_arm) == [s |-> "If", arms |-> arms, else_arm |-> else_arm]
Arm(condition, block) == [condition |-> condition, block |-> block]
ForLoop(init, test, inc, block) ==
    [s |-> "ForLoop", init |-> init, test |-> test, inc |-> inc, block |-> block]
ForList(name, in_list, block) ==
    [s |-> "ForList", name |-> name, in_list |-> in_list, block |-> block]
ForRange(name, start, end, step, block) ==
    [s |-> "ForRange", name |-> name, start |-> start, end |-> end,
     step |-> step, block |-> block]
Var(name, type_path, value) ==
    [s |-> "Var", var |-> VarStatement(name, type_path, value)]
Vars(vs) == [s |-> "Vars", vars |-> vs]
Setting == [s |-> "Setting"]
Spawn(delay, block) == [s |-> "Spawn", delay |-> delay, block |-> block]
Switch(input, cases, default) ==
    [s |-> "Switch", input |-> input, cases |-> cases, default |-> default]
SwitchCase(case, block) == [case |-> case, block |-> block]
Exact(expr) == [cp |-> "Exact", expr |-> expr]
Range(start, end) == [cp |-> "Range", start |-> start, end |-> end]
TryCatch(try_block, catch_block) ==
    [s |-> "TryCatch", try_block |-> try_block, catch_block |-> catch_block]
Continue == [s |-> "Continue"]
Break == [s |-> "Break"]
Label(block) == [s |-> "Label", block |-> block]

----------------------------------------------------------------------------
(* The procedures analysed: bounded sets of bodies.                        *)

MaxWrap == 1     \* unary operators plus follow accessors around one term
MaxBlock == 1    \* statements in a nested block

SeqsUpTo(S, n) == UNION { [1..k -> S] : k \in 0..n }

UnaryOps == {"Not", "Neg", "BitNot", "PreIncr", "PostIncr", "PreDecr", "PostDecr"}
IndexKinds == {"Dot", "SafeDot", "Colon", "SafeColon"}

Zero == Of(IntLit(0))
One == Of(IntLit(1))
Text == Of(StringLit("a"))
Use(name) == Of(Ident(name))

Follows ==
    {Index(One)} \cup { Field(k, "fld") : k \in IndexKinds }
                 \cup { FollowCall(k, "m", <<>>) : k \in IndexKinds }

FooPath == <<Slash("obj"), Slash("foo")>>

\* "x": declared by some bodies; "n", "f": fields of /obj; "p": the parameter
\* of the /obj/foo procedure; "u", "c": declared nowhere.
LeafTerms ==
    { [t |-> "Null"], New(Implicit, <<>>), New(NewIdent("x"), <<>>),
      New(NewPrefab(FooPath), <<>>), New(NewPrefab(<<Slash("nope")>>), <<>>),
      ListOf(<<>>), Prefab(<<Dot("foo")>>),
      StringLit("a"), ResourceLit("r"), IntLit(1), FloatLit(2),
      [t |-> "InterpString"], [t |-> "Locate"],
      Ident("n"), Ident("f"), Ident("u"), Ident("p"), Ident("global") }

\* A term under up to MaxWrap unary operators and follow accessors ...
Wrapped ==
    { Base(w[1], term, w[2]) :
        w \in { v \in SeqsUpTo(UnaryOps, MaxWrap) \X SeqsUpTo(Follows, MaxWrap) :
                  Len(v[1]) + Len(v[2]) <= MaxWrap },
        term \in LeafTerms }

\* ... and under one unary operator over one follow accessor, or under two
\* unary operators.
Mixed ==
    { Base(<<op>>, term, <<fo>>) :
        op \in UnaryOps, fo \in { Index(One), Field("Dot", "fld") },
        term \in LeafTerms }
    \cup { Base(<<o1, o2>>, term, <<>>) :
             o1 \in {"Not", "Neg"}, o2 \in {"Not", "Neg"}, term \in LeafTerms }

Atoms == { Use("u"), One, Of(New(Implicit, <<>>)), Use("n") }

Composite ==
    { BinaryOp("Add", a, b) : a, b \in Atoms }
    \cup { AssignOp("Assign", a, b) : a, b \in Atoms }
    \cup { TernaryOp(a, b, c) : a, b, c \in Atoms }
    \cup { Of(Paren(a)) : a \in Atoms }
    \cup { Base(<<"Not">>, Paren(a), <<>>) : a \in Atoms }
    \cup { Of(Call("f", args)) : args \in SeqsUpTo(Atoms, 2) }
    \cup { Of(ListOf(<<a>>)) : a \in Atoms }
    \cup { Of(New(Implicit, <<a>>)) : a \in Atoms }
    \cup { Base(<<>>, Ident("n"), <<Index(a)>>) : a \in Atoms }
    \cup { Base(<<>>, Ident("n"), <<FollowCall("Dot", "m", <<a>>)>>) : a \in Atoms }

TypePaths == { <<>>, <<"obj", "foo">>, <<"nope">> }

Simple ==
    { Expr(e) : e \in Wrapped \cup Mixed \cup Composite }
    \cup { Var("x", tp, Some(e)) :
             tp \in TypePaths \ {<<>>}, e \in Wrapped \cup Mixed }
    \cup { Var("x", tp, Some(e)) : tp \in TypePaths, e \in Composite }
    \cup { Var("x", tp, None) : tp \in TypePaths }
    \cup { Return(None), Setting, Continue, Break }
    \cup { Return(Some(a)) : a \in Atoms }
    \cup { Throw(a) : a \in Atoms }
    \cup { Del(a) : a \in Atoms }

Decls ==
    { VarStatement(name, <<>>, Some(v)) : name \in {"x", "n"}, v \in {One, Text} }

BlockStatements ==
    { Expr(Use("u")), Expr(Use("x")), Var("x", <<>>, Some(One)),
      Var("x", <<>>, Some(Text)),
      If(<<Arm(Use("x"), <<Var("x", <<>>, Some(Of(ResourceLit("r"))))>>)>>,
         Some(<<Var("x", <<>>, Some(Of(FloatLit(2))))>>)) }

Blocks == SeqsUpTo(BlockStatements, MaxBlock)
SomeBlock == { None } \cup { Some(b) : b \in Blocks }
SomeStatement == { None } \cup { Some(<<st>>) : st \in BlockStatements }

Controls == { Use("c"), Use("x") }
SomeControl == { None } \cup { Some(e) : e \in Controls }

Ifs ==
    { If(<<Arm(Use("c"), b)>>, e) : b \in Blocks, e \in SomeBlock }
    \cup { If(<<Arm(Use("c"), b1), Arm(Use("x"), b2)>>, e) :
             b1 \in Blocks, b2 \in Blocks, e \in SomeStatement }

CaseParts ==
    { <<Exact(Use("c"))>>, <<Range(Use("c"), Use("x")), Exact(One)>> }

Switches ==
    { Switch(Use("x"), <<>>, d) : d \in SomeBlock }
    \cup { Switch(Use("x"), <<SwitchCase(p, b)>>, d) :
             p \in CaseParts, b \in Blocks, d \in SomeBlock }
    \cup { Switch(Use("x"),
                  <<SwitchCase(<<Exact(Use("c"))>>, b1),
                    SwitchCase(<<Exact(Use("x"))>>, b2)>>, None) :
             b1 \in Blocks, b2 \in Blocks }

Loops ==
    { While(c, b) : c \in Controls, b \in Blocks }
    \cup { DoWhile(b, c) : b \in Blocks, c \in Controls }
    \cup { ForLoop(i, t, s, b) :
             i \in { None, Some(Var("x", <<>>, Some(Zero))), Some(Expr(Use("c"))) },
             t \in { None, Some(Use("x")) },
             s \in { None, Some(Expr(AssignOp("AddAssign", Use("x"), One))) },
             b \in Blocks }
    \cup { ForList("i", l, b) : l \in SomeControl, b \in Blocks }
    \cup { ForRange("i", s, e, st, b) :
             s \in Controls, e \in Controls, st \in { None, Some(Use("c")) },
             b \in Blocks }

Others ==
    { Spawn(d, b) : d \in SomeControl, b \in Blocks }
    \cup { TryCatch(b1, b2) : b1 \in Blocks, b2 \in Blocks }
    \cup { Label(b) : b \in Blocks }
    \cup { Vars(<<d1, d2>>) : d1 \in Decls, d2 \in Decls }

Compound == Ifs \cup Switches \cup Loops \cup Others

\* A body: one statement; or a compound statement and then a read of the
\* variable it may have declared, or a return; or a declaration and then a
\* read of, or an assignment to, the variable.
Bodies ==
    { <<s>> : s \in Simple }
    \cup { <<s, t>> : s \in Compound, t \in { Expr(Use("x")), Return(None) } }
    \cup UNION { { <<[s |-> "Var", var |-> d], Expr(e)>> :
                     e \in { Use(d.name), AssignOp("Assign", Use(d.name), One),
                             AssignOp("Assign", Use(d.name), Text) } } :
                   d \in Decls }

\* The procedures of the tree whose code is present: owner and parameters.
Procs ==
    { [ty |-> Root, parameters |-> <<>>],
      [ty |-> <<"obj", "foo">>, parameters |-> <<"p">>] }

----------------------------------------------------------------------------
(* The machine: ProcAnalyzer::new(..).run(proc, code).                     *)

Self == [ty |-> ty, local_vars |-> local_vars, stderr |-> stderr, calls |-> calls]

Init ==
    /\ ty \in { p.ty : p \in Procs }
    /\ local_vars = new(ty)
    /\ stderr = <<>>
    /\ calls = <<>>
    /\ code = None
    /\ rest = <<>>
    /\ pc = "new"

\* run, up to the first statement of visit_block's loop.
Run ==
    /\ pc = "new"
    /\ \E proc \in { p \in Procs : p.ty = ty }, block \in Bodies :
          /\ local_vars' = seed_parameters(local_vars, proc.parameters)
          /\ code' = Some(block)
          /\ rest' = block
    /\ pc' = "walk"
    /\ UNCHANGED <<ty, stderr, calls>>

\* One turn of the loop of run's visit_block, for a statement of kind k.
Becomes(after) ==
    /\ local_vars' = after.local_vars
    /\ stderr' = after.stderr
    /\ calls' = after.calls

Visit ==
    /\ Becomes(visit_statement(Self, Head(rest)))
    /\ rest' = Tail(rest)
    /\ UNCHANGED <<ty, code, pc>>

At(k) == pc = "walk" /\ rest # <<>> /\ Head(rest).s = k

VisitExpr == At("Expr") /\ Visit
VisitReturn == At("Return") /\ Visit
VisitThrow == At("Throw") /\ Visit
VisitDel == At("Del") /\ Visit
VisitWhile == At("While") /\ Visit
VisitDoWhile == At("DoWhile") /\ Visit
VisitIf == At("If") /\ Visit
VisitForLoop == At("ForLoop") /\ Visit
VisitForList == At("ForList") /\ Visit
VisitForRange == At("ForRange") /\ Visit
VisitVar == At("Var") /\ Visit
VisitVars == At("Vars") /\ Visit
VisitSetting == At("Setting") /\ Visit
VisitSpawn == At("Spawn") /\ Visit
VisitSwitch == At("Switch") /\ Visit
VisitTryCatch == At("TryCatch") /\ Visit
VisitContinue == At("Continue") /\ Visit
VisitBreak == At("Break") /\ Visit
VisitLabel == At("Label") /\ Visit

\* The loop is over: run returns.
Returns ==
    /\ pc = "walk"
    /\ rest = <<>>
    /\ pc' = "done"
    /\ UNCHANGED <<ty, local_vars, stderr, calls, code, rest>>

Next ==
    \/ Run
    \/ VisitExpr \/ VisitReturn \/ VisitThrow \/ VisitDel
    \/ VisitWhile \/ VisitDoWhile \/ VisitIf
    \/ VisitForLoop \/ VisitForList \/ VisitForRange
    \/ VisitVar \/ VisitVars \/ VisitSetting \/ VisitSpawn
    \/ VisitSwitch \/ VisitTryCatch \/ VisitContinue \/ VisitBreak \/ VisitLabel
    \/ Returns

Spec == Init /\ [][Next]_vars

----------------------------------------------------------------------------
(* Properties.  calls[i] is the i-th call to return: calls[i].call is the  *)
(* call, .ret what it returned, .out the number of lines it wrote.         *)

IsCall(i, f) == calls[i].call.f = f

\* The statements of the body run has visited so far, and the last of them.
Visited == IF code = None THEN 0 ELSE Len(code[1]) - Len(rest)
Last(s) == s[Len(s)]

\* The blocks directly inside a statement, in textual order, and all the
\* statements of a block, nested ones included, in textual order.
Blocks_of(xs) == [i \in DOMAIN xs |-> xs[i].block]

SubBlocks(st) ==
    CASE st.s \in {"While", "DoWhile", "ForList", "ForRange", "Spawn", "Label"} ->
            <<st.block>>
      [] st.s = "If" -> Blocks_of(st.arms) \o st.else_arm
      [] st.s = "ForLoop" -> <<st.init, st.inc, st.block>>
      [] st.s = "Switch" -> Blocks_of(st.cases) \o st.default
      [] st.s = "TryCatch" -> <<st.try_block, st.catch_block>>
      [] OTHER -> <<>>

RECURSIVE Flat(_)
RECURSIVE FlatAll(_)
Flat(block) ==
    IF block = <<>> THEN <<>>
    ELSE <<Head(block)>> \o FlatAll(SubBlocks(Head(block))) \o Flat(Tail(block))
FlatAll(blocks) ==
    IF blocks = <<>> THEN <<>> ELSE Flat(Head(blocks)) \o FlatAll(Tail(blocks))

IsBare(e) == e.e = "Base" /\ e.unary = <<>> /\ e.follow = <<>>
IsUse(e) == IsBare(e) /\ e.term.t = "Ident"

\* C1: an ordinary index, an ordinary field access and an ordinary method
\* call each give the unconstrained value and write a diagnostic.
Ordinary(follow) ==
    \/ follow.fo = "Index"
    \/ follow.fo \in {"Field", "Call"} /\ follow.kind = "Dot"

C1_OrdinaryFollowReported ==
    \A i \in DOMAIN calls :
        IsCall(i, "visit_follow") /\ Ordinary(calls[i].call.follow) =>
            calls[i].ret = empty /\ calls[i].out >= 1

\* C6: logical negation gives a number with no constant and writes nothing,
\* whatever the shape of its operand, the unconstrained shape included.
C6_NotYieldsNumber ==
    \A i \in DOMAIN calls :
        IsCall(i, "visit_unary") /\ calls[i].call.op = "Not" =>
            /\ calls[i].ret.ty = Number
            /\ calls[i].ret.value = None
            /\ calls[i].out = 0

C6_NotOfAny ==
    /\ pc = "done"
    /\ \E i \in DOMAIN calls :
          /\ IsCall(i, "visit_unary") /\ calls[i].call.op = "Not"
          /\ calls[i].call.rhs = empty
          /\ calls[i].ret = into(Number)

\* C8: wherever an abstract value carries a constant, its shape is the shape
\* from_constant gives for that constant: in every binding of the
\* environment, in every value a call returned and in every operand.
WellShaped(a) == a.value = None \/ from_constant(a.value[1]) = a.ty

Valued == {"visit_expression", "visit_term", "visit_follow", "visit_unary",
           "visit_binary", "visit_call", "visit_var"}

C8_ConstantFixesShape ==
    /\ \A n \in DOMAIN local_vars : WellShaped(local_vars[n])
    /\ \A i \in DOMAIN calls :
          /\ calls[i].call.f \in Valued => WellShaped(calls[i].ret)
          /\ IsCall(i, "visit_unary") => WellShaped(calls[i].call.rhs)
          /\ IsCall(i, "visit_follow") => WellShaped(calls[i].call.lhs)

\* A declaration initialised with the literal 1: the term, the expression and
\* the binding all carry the constant and are numbers.
C8_ConstantKept ==
    /\ pc = "done"
    /\ \E n \in DOMAIN local_vars : local_vars[n] = from_value(Const("Int", "", 1))
    /\ \E i \in DOMAIN calls :
          /\ IsCall(i, "visit_expression")
          /\ calls[i].ret.value = Some(Const("Int", "", 1))
          /\ calls[i].ret.ty = Number

\* C3: the arms of an if are evaluated in the one environment, in textual
\* order: after the statement a variable declared in its arms holds the value
\* of the textually last declaration, a later read sees that value, and an
\* arm's condition sees what an earlier arm declared.
Literal(term) ==
    CASE term.t = "Int" -> from_value(Const("Int", "", term.number))
      [] term.t = "Float" -> from_value(Const("Float", "", term.number))
      [] term.t = "String" -> from_value(Const("String", term.text, 0))
      [] term.t = "Resource" -> from_value(Const("Resource", term.text, 0))

IsDeclOfX(st) == st.s = "Var" /\ st.var.name = "x"
DeclsOfX(st) == SelectSeq(Flat(<<st>>), IsDeclOfX)

ReadsX(i) == IsCall(i, "visit_term") /\ calls[i].call.term = Ident("x")

LastArmWins(ds) ==
    ds # <<>> =>
        /\ "x" \in DOMAIN local_vars
        /\ local_vars["x"] = Literal(Last(ds).var.value[1].term)
        /\ pc = "done" /\ code[1][2] = Expr(Use("x")) =>
                /\ calls[Len(calls) - 1].ret = local_vars["x"]
                /\ calls[Len(calls) - 1].out = 0

C3_IfArmsShareEnvironment ==
    Visited >= 1 /\ code[1][1].s = "If" =>
        /\ LastArmWins(DeclsOfX(code[1][1]))
        /\ \A i \in DOMAIN calls :
              /\ ReadsX(i)
              /\ \E j \in 1..(i - 1) :
                    IsCall(j, "visit_var") /\ calls[j].call.var.name = "x"
              => calls[i].out = 0 /\ calls[i].ret # empty

\* `if (c) { var/x = "a" } else { var/x = 1 }`, and then a read of x: a number.
C3_ElseArmWins ==
    /\ pc = "done"
    /\ code[1] = <<If(<<Arm(Use("c"), <<Var("x", <<>>, Some(Text))>>)>>,
                      Some(<<Var("x", <<>>, Some(One))>>)),
                   Expr(Use("x"))>>
    /\ local_vars["x"] = from_value(Const("Int", "", 1))
    /\ calls[Len(calls) - 1].ret.ty = Number

\* C4: a bare identifier is the local of that name when there is one, whatever
\* fields the class declares; else the declared field, as an instance of its
\* declared type when that resolves and unconstrained with a diagnostic when
\* not; else unconstrained with the diagnostic "ident failed to resolve".
FieldsNamed(name) == { d \in VarDecls : d.name = name /\ d.on \in Ancestors(ty) }

IdentResolves(name, e) ==
    IF name \in DOMAIN local_vars
    THEN e.ret = local_vars[name] /\ stderr' = stderr
    ELSE /\ \A d \in FieldsNamed(name) :
              IF d.type_path \in Classes
              THEN e.ret = into(Instance(d.type_path)) /\ stderr' = stderr
              ELSE e.ret = empty /\ Len(stderr') = Len(stderr) + 1
         /\ FieldsNamed(name) = {} =>
              /\ e.ret = empty
              /\ stderr' = Append(stderr,
                                  [msg |-> "visit_term: ident failed to resolve",
                                   arg |-> name])

TermOf(j) == j - Len(calls[j].call.expr.unary) - Len(calls[j].call.expr.follow) - 1

HintAtTerm(j, k) ==
    /\ k >= 1
    /\ IsCall(k, "visit_term")
    /\ calls[k].call.term = calls[j].call.expr.term
    /\ calls[k].call.type_hint =
          IF IsBare(calls[j].call.expr) THEN calls[j].call.type_hint ELSE None

NoHint == [msg |-> "NewType::Implicit with no type hint", arg |-> ""]

TypedDecl(var, e) ==
    /\ e.term = New(Implicit, <<>>) /\ IsBare(e) =>
            local_vars[var.name] = into(Instance(var.type_path)) /\ stderr = <<>>
    /\ e.term = New(Implicit, <<>>) /\ ~IsBare(e) =>
            /\ stderr # <<>> /\ stderr[1] = NoHint
            /\ e.unary = <<>> => local_vars[var.name] = empty
    /\ e.follow # <<>> /\ e.unary = <<>> => local_vars[var.name] = empty

C5_HintReachesBareTerm ==
    /\ \A j \in DOMAIN calls :
          IsCall(j, "visit_expression") /\ calls[j].call.expr.e = "Base" =>
              HintAtTerm(j, TermOf(j))
    /\ /\ Visited = 1 /\ code[1][1].s = "Var"
       /\ code[1][1].var.type_path \in Classes \ {Root}
       /\ code[1][1].var.value # None
       /\ code[1][1].var.value[1].e = "Base"
       => TypedDecl(code[1][1].var, code[1][1].var.value[1])

\* `var/obj/foo/x = new` binds an instance of /obj/foo and writes nothing.
C5_ImplicitNewTakesDeclaredType ==
    /\ pc = "done"
    /\ code[1] = <<Var("x", <<"obj", "foo">>, Some(Of(New(Implicit, <<>>))))>>
    /\ local_vars["x"] = into(Instance(<<"obj", "foo">>))
    /\ stderr = <<>>

\* C9: evaluating an expression leaves the environment as it was, an
\* assignment to a bound identifier included, which returns the value of its
\* right-hand side; bindings are added or overwritten only by the seeding of
\* parameters and by declaration statements, and none is ever removed.
DeclaresVar(st) == st.s \in {"Var", "Vars"}
ContainsVar(st) == SelectSeq(Flat(<<st>>), DeclaresVar) # <<>>

MayBind(call) ==
    \/ call.f = "visit_var"
    \/ call.f = "visit_statement" /\ ContainsVar(call.statement)

FramesKept(cs) ==
    \A i \in DOMAIN cs :
        /\ ~cs[i].frame => MayBind(cs[i].call)
        /\ cs[i].call.f = "visit_expression" /\ cs[i].call.expr.e = "AssignOp" =>
                cs[i].ret = cs[i - 1].ret

C9_ExpressionsKeepEnvironment ==
    [][/\ FramesKept(calls')
       /\ DOMAIN local_vars \subseteq DOMAIN local_vars'
       /\ \A n \in DOMAIN local_vars :
             local_vars'[n] # local_vars[n] =>
                 pc = "walk" /\ ContainsVar(Head(rest))
       /\ DOMAIN local_vars' # DOMAIN local_vars =>
             pc = "new" \/ ContainsVar(Head(rest))]_vars

\* `var/x = "a"` and then `x = 1`: the assignment returns 1, x is still "a".
C9_AssignmentKeepsTarget ==
    /\ pc = "done"
    /\ code[1] = <<Var("x", <<>>, Some(Text)),
                   Expr(AssignOp("Assign", Use("x"), One))>>
    /\ local_vars["x"] = from_value(Const("String", "a", 0))
    /\ calls[Len(calls) - 1].ret = from_value(Const("Int", "", 1))
    /\ calls[Len(calls) - 1].frame

\* C7: the walk of any body ends, whatever failed to resolve on the way, and
\* by then every statement of the body, nested ones included, has been
\* visited exactly once.  After k steps of run's loop the first k statements
\* of the body, with all the statements nested in them, have been visited
\* once each and nothing else has; the statement next in line is of a kind
\* the walker has a step for; and run returns when none is left.
Count(s, x) == Cardinality({ i \in DOMAIN s : s[i] = x })

SameBag(a, b) ==
    /\ Len(a) = Len(b)
    /\ \A i \in DOMAIN a : Count(a, a[i]) = Count(b, a[i])

IsStatementCall(c) == c.call.f = "visit_statement"
StatementCalls == SelectSeq(calls, IsStatementCall)
StatementsVisited == [i \in DOMAIN StatementCalls |-> StatementCalls[i].call.statement]

WalkedOnce == SameBag(StatementsVisited, Flat(SubSeq(code[1], 1, Visited)))

StatementKinds ==
    {"Expr", "Return", "Throw", "Del", "While", "DoWhile", "If", "ForLoop",
     "ForList", "ForRange", "Var", "Vars", "Setting", "Spawn", "Switch",
     "TryCatch", "Continue", "Break", "Label"}

C7_WalkEndsEachStatementOnce ==
    code # None =>
        /\ rest = SubSeq(code[1], Visited + 1, Len(code[1]))
        /\ WalkedOnce
        /\ pc = "walk" /\ rest # <<>> => \E k \in StatementKinds : At(k)
        /\ pc = "done" => rest = <<>>

\* A loop whose condition and body both fail to resolve, walked to the end.
C7_LoopWalkedDespiteFailures ==
    /\ pc = "done"
    /\ WalkedOnce
    /\ code[1][1] = While(Use("c"), <<Expr(Use("u"))>>)
    /\ Len(stderr) >= 2

\* C10 (as stated): each of the five loop forms evaluates all its control
\* parts first, with no hint, and then walks its body once; what the init of a
\* counted for declares is visible to the test, the step and the body.
E(e) == [f |-> "visit_expression", expr |-> e, type_hint |-> None]
St(s) == [f |-> "visit_statement", statement |-> s]
ExprCalls(es) == [i \in DOMAIN es |-> E(es[i])]
StmtCalls(ss) == [i \in DOMAIN ss |-> St(ss[i])]

LoopKinds == {"While", "DoWhile", "ForLoop", "ForList", "ForRange"}

Control(st) ==
    CASE st.s \in {"While", "DoWhile"} -> <<E(st.condition)>>
      [] st.s = "ForLoop" ->
            StmtCalls(st.init) \o ExprCalls(st.test) \o StmtCalls(st.inc)
      [] st.s = "ForList" -> ExprCalls(st.in_list)
      [] st.s = "ForRange" -> <<E(st.start), E(st.end)>> \o ExprCalls(st.step)

\* The calls of cs after index `from` that are `call`; the least of a set.
Positions(cs, call, from) == { i \in DOMAIN cs : i > from /\ cs[i].call = call }
Min(S) == CHOOSE x \in S : \A y \in S : x <= y

\* Where the calls `want` end in cs, each taken at its first return after the
\* one before; past the end of cs if one of them is missing.
RECURSIVE EndOf(_, _, _)
EndOf(cs, want, from) ==
    IF want = <<>> THEN from
    ELSE IF Positions(cs, Head(want), from) = {} THEN Len(cs) + 1
    ELSE EndOf(cs, Tail(want), Min(Positions(cs, Head(want), from)))

InBlock(block, c) ==
    c.call.f = "visit_statement" /\ \E k \in DOMAIN block : block[k] = c.call.statement
BodyAt(cs, block) == { i \in DOMAIN cs : InBlock(block, cs[i]) }
BodyOnce(cs, block) ==
    \E at \in [DOMAIN block -> DOMAIN cs] :
        /\ \A k \in DOMAIN block : cs[at[k]].call = St(block[k])
        /\ \A k \in DOMAIN block : k > 1 => at[k - 1] < at[k]
        /\ BodyAt(cs, block) = { at[k] : k \in DOMAIN block }

LinesAbout(name) ==
    { i \in DOMAIN stderr : /\ stderr[i].msg = "visit_term: ident failed to resolve"
                            /\ stderr[i].arg = name }

ControlFirst(cs, st) ==
    /\ \A i \in BodyAt(cs, st.block) : i > EndOf(cs, Control(st), 0)
    /\ EndOf(cs, Control(st), 0) <= Len(cs)
    /\ BodyOnce(cs, st.block)
    /\ \A i \in LinesAbout("c"), j \in LinesAbout("u") : i < j

InitVisible(st) ==
    st.s = "ForLoop" /\ st.init = Some(Var("x", <<>>, Some(Zero))) =>
        /\ LinesAbout("x") = {}
        /\ \A i \in DOMAIN calls : ReadsX(i) => calls[i].ret.ty # Any

C10_ControlsBeforeBody ==
    Visited = 1 /\ code[1][1].s \in LoopKinds =>
        ControlFirst(calls, code[1][1]) /\ InitVisible(code[1][1])

\* C10 (amended): the while, counted for, collection for and range for do so;
\* the do-while walks its body once first and evaluates its condition, with no
\* hint, after it, so that the condition sees what the body declared.
BodyFirst(cs, st) ==
    /\ cs[Len(cs) - 1].call = E(st.condition)
    /\ \A i \in BodyAt(cs, st.block) : i < Len(cs) - 1
    /\ BodyOnce(cs, st.block)
    /\ \A i \in LinesAbout("u"), j \in LinesAbout("c") : i < j
    /\ st.block # <<>> /\ IsDeclOfX(Last(st.block)) /\ st.condition = Use("x") =>
            cs[Len(cs) - 1].ret = Literal(Last(st.block).var.value[1].term)

C10_ControlsBeforeBodyButDoWhile ==
    Visited = 1 /\ code[1][1].s \in LoopKinds =>
        IF code[1][1].s = "DoWhile"
        THEN BodyFirst(calls, code[1][1])
        ELSE ControlFirst(calls, code[1][1]) /\ InitVisible(code[1][1])

\* `do { u } while (c)`: the line about u is written before the line about c.
C10_DoWhileBodyThenCondition ==
    /\ Visited = 1
    /\ code[1][1] = DoWhile(<<Expr(Use("u"))>>, Use("c"))
    /\ Len(stderr) = 2 /\ stderr[1].arg = "u" /\ stderr[2].arg = "c"

\* C2 (as stated): a body with exactly one reference to an identifier that is
\* neither bound nor a declared field, and nothing else that fails, writes
\* exactly one diagnostic, whatever form the reference appears in.
\*
\* The marks of an expression, read off its syntax: a "ref" for each
\* identifier, an "emit" for each binary operator, unscoped call and index
\* accessor, a "bad" for anything else that can fail.  ev tells whether the
\* walker evaluates the place: it does not evaluate the elements of a list
\* literal, the arguments of `new` and of a method call, or an index.
Ref(name, ev) == [m |-> "ref", name |-> name, ev |-> ev]
Emit(ev) == [m |-> "emit", name |-> "", ev |-> ev]
Bad == [m |-> "bad", name |-> "", ev |-> TRUE]

QuietTerms == {"Int", "Float", "String", "Resource", "Null", "InterpString"}

QuietUnary(e) ==
    \/ e.unary = <<>> \/ e.follow # <<>> \/ Last(e.unary) = "Not"
    \/ e.term.t \in {"Int", "Float", "Call"}
    \/ e.term.t = "Ident" /\ e.term.name \in {"u", "c"}

RECURSIVE Marks(_, _)
RECURSIVE MarksOfAll(_, _)
RECURSIVE MarksOfFollows(_, _)

TermMarks(term, ev) ==
    CASE term.t = "Ident" -> <<Ref(term.name, ev)>>
      [] term.t = "Call" -> MarksOfAll(term.args, ev) \o <<Emit(ev)>>
      [] term.t = "List" -> MarksOfAll(term.args, FALSE)
      [] term.t = "New" /\ term.type_.nt = "Ident" -> MarksOfAll(term.args, FALSE)
      [] term.t = "Expr" -> Marks(term.expr, ev)
      [] term.t \in QuietTerms -> <<>>
      [] OTHER -> <<Bad>>

FollowMarks(fo, ev) ==
    CASE fo.fo = "Index" -> <<Emit(ev)>> \o Marks(fo.expr, FALSE)
      [] fo.fo = "Call" -> MarksOfAll(fo.args, FALSE)
      [] fo.fo = "Field" -> <<>>

MarksOfFollows(fs, ev) ==
    IF fs = <<>> THEN <<>>
    ELSE FollowMarks(Head(fs), ev) \o MarksOfFollows(Tail(fs), ev)

Marks(e, ev) ==
    CASE e.e = "Base" ->
            TermMarks(e.term, ev) \o MarksOfFollows(e.follow, ev)
                \o (IF QuietUnary(e) THEN <<>> ELSE <<Bad>>)
      [] e.e = "BinaryOp" -> Marks(e.lhs, ev) \o Marks(e.rhs, ev) \o <<Emit(ev)>>
      [] e.e = "AssignOp" -> Marks(e.lhs, ev) \o Marks(e.rhs, ev)
      [] e.e = "TernaryOp" ->
            Marks(e.cond, ev) \o Marks(e.if_, ev) \o Marks(e.else_, ev)

MarksOfAll(es, ev) ==
    IF es = <<>> THEN <<>> ELSE Marks(Head(es), ev) \o MarksOfAll(Tail(es), ev)

\* The expressions a statement itself evaluates (not those of the statements
\* nested in it).
RECURSIVE Concat(_)
Concat(ss) == IF ss = <<>> THEN <<>> ELSE Head(ss) \o Concat(Tail(ss))

CasePartExprs(p) == IF p.cp = "Exact" THEN <<p.expr>> ELSE <<p.start, p.end>>
CaseExprs(c) == Concat([i \in DOMAIN c.case |-> CasePartExprs(c.case[i])])

Exprs(st) ==
    CASE st.s \in {"Expr", "Throw", "Del"} -> <<st.expr>>
      [] st.s = "Return" -> st.value
      [] st.s \in {"While", "DoWhile"} -> <<st.condition>>
      [] st.s = "If" -> [i \in DOMAIN st.arms |-> st.arms[i].condition]
      [] st.s = "ForLoop" -> st.test
      [] st.s = "ForList" -> st.in_list
      [] st.s = "ForRange" -> <<st.start, st.end>> \o st.step
      [] st.s = "Var" -> st.var.value
      [] st.s = "Vars" -> Concat([i \in DOMAIN st.vars |-> st.vars[i].value])
      [] st.s = "Spawn" -> st.delay
      [] st.s = "Switch" ->
            <<st.input>> \o Concat([i \in DOMAIN st.cases |-> CaseExprs(st.cases[i])])
      [] OTHER -> <<>>

StatementMarks(st) ==
    MarksOfAll(Exprs(st), TRUE)
        \o (IF st.s = "Var" /\ st.var.type_path \notin Classes THEN <<Bad>> ELSE <<>>)

BodyMarks(block) ==
    Concat([i \in DOMAIN Flat(block) |-> StatementMarks(Flat(block)[i])])

\* Names that are bound or declared nowhere for the class, and names that
\* always resolve for it.
Undeclared == {"u", "c"} \cup (IF ty = Root THEN {"f", "p"} ELSE {})
Resolving == {"global"} \cup (IF ty = Root THEN {} ELSE {"p", "n"})

IsUndeclaredRef(k) == k.m = "ref" /\ k.name \in Undeclared
IsEvaluatedUndeclaredRef(k) == IsUndeclaredRef(k) /\ k.ev
IsEvaluatedEmit(k) == k.m = "emit" /\ k.ev
IsOtherFailure(k) ==
    k.m = "bad" \/ (k.m = "ref" /\ k.name \notin Undeclared \cup Resolving)

HowMany(ms, Test(_)) == Len(SelectSeq(ms, Test))

OneUndeclaredRef(ms) ==
    HowMany(ms, IsUndeclaredRef) = 1 /\ HowMany(ms, IsOtherFailure) = 0

IsUnresolved(line) ==
    line.msg = "visit_term: ident failed to resolve" /\ line.arg \in Undeclared

C2_OneDiagnosticPerUndeclared ==
    pc = "done" /\ OneUndeclaredRef(BodyMarks(code[1])) => Len(stderr) = 1

\* C2 (amended): such a body writes exactly one diagnostic for the identifier
\* if the reference is in a place the walker evaluates and none if it is not,
\* and one more for every binary operator, unscoped call and index accessor it
\* evaluates, and nothing else.
DiagnosticsFor(ms) ==
    /\ HowMany(stderr, IsUnresolved) = HowMany(ms, IsEvaluatedUndeclaredRef)
    /\ Len(stderr) = HowMany(ms, IsEvaluatedUndeclaredRef)
                        + HowMany(ms, IsEvaluatedEmit)

C2_OneDiagnosticWhereEvaluated ==
    pc = "done" /\ OneUndeclaredRef(BodyMarks(code[1])) =>
        DiagnosticsFor(BodyMarks(code[1]))

\* `while (c) { var/x = 1 }` and a return: the one line is the one about c.
C2_LoopConditionUndeclared ==
    /\ pc = "done"
    /\ code[1] = <<While(Use("c"), <<Var("x", <<>>, Some(One))>>), Return(None)>>
    /\ OneUndeclaredRef(BodyMarks(code[1]))
    /\ stderr = <<[msg |-> "visit_term: ident failed to resolve", arg |-> "c"]>>

====
